---------------------------- MODULE Spec2Model ----------------------------
(***************************************************************************)
(* Model of custom_components/govee-ble-lights/light.py: the frame codec   *)
(* (_prepareSinglePacketData), the command builder and delivery loop of    *)
(* GoveeBluetoothLight (async_turn_on, async_turn_off) and the bounded     *)
(* connection retry (_connectBluetooth).                                   *)
(*                                                                         *)
(* Python values are encoded as follows: an optional value (None or a      *)
(* value) is a sequence of length 0 or 1; a bytes object or a list of      *)
(* ints is a sequence of integers; a coroutine is a record of intent       *)
(* fields with a program position pc that advances at each await.          *)
(***************************************************************************)
EXTENDS Integers, Sequences, FiniteSets, TLC

VARIABLES
    model,          \* self._model
    is_segmented,   \* self._is_segmented
    use_percent,    \* self._use_percent
    state,          \* self._state       (<<>> is None)
    brightness,     \* self._brightness  (<<>> is None)
    rgb_color,      \* self._rgb_color   (<<>> is None)
    intents,        \* the async_turn_on / async_turn_off calls, by call number
    written,        \* what the peripheral received: <<[intent, frame, link]>>
    links,          \* links established by establish_connection and not released
    cmd,            \* codec harness: the cmd argument
    payload,        \* codec harness: the payload argument
    result,         \* codec harness: what _prepareSinglePacketData did
    request,        \* builder harness: the kwargs of the call (<<>> before it)
    built,          \* builder harness: what the command builder made of them
    earlier         \* builder harness: the request and result before these

vars == <<model, is_segmented, use_percent, state, brightness, rgb_color,
          intents, written, links, cmd, payload, result,
          request, built, earlier>>

deviceVars == <<model, is_segmented, use_percent, state, brightness, rgb_color,
                intents, written, links>>

builderVars == <<request, built, earlier>>

codecVars == <<cmd, payload, result, builderVars>>

-----------------------------------------------------------------------------
(* Bounds of the model *)

\* number of async_turn_on / async_turn_off calls made in one behaviour
MaxIntents == 2

\* longest payload handed to the codec harness
MaxPayloadLen == 19

-----------------------------------------------------------------------------
(* Program constants *)

POWER == 1
BRIGHTNESS == 4
COLOR == 5

MANUAL == 2
SEGMENTS == 21

SEGMENTED_MODELS == {"H6053", "H6072", "H6102", "H6199", "H617A", "H617C"}
PERCENT_MODELS == {"H617A"}

\* range(3) in _connectBluetooth
ConnectAttempts == 3

\* len(payload) > 17
MaxPayload == 17

\* the leading byte of a direct command frame
Marker == 51

\* bytes([0] * (19 - len(frame)))
FrameBody == 19

\* the marker prepareMultiplePacketsData is called with (0xa3)
EffectMarker == 163

\* the header prepareMultiplePacketsData is called with (array('B', [0x02]))
EffectSubType == 2

\* a capability test that reads the other list
IsSegmentedFromPercent(m) == m \in PERCENT_MODELS

\* line 81: self._model in SEGMENTED_MODELS
IsSegmented(m) == m \in SEGMENTED_MODELS

\* line 82: self._model in PERCENT_MODELS
UsesPercent(m) == m \in PERCENT_MODELS

-----------------------------------------------------------------------------
(* Byte arithmetic *)

RECURSIVE Xor(_, _)
\* a ^ b on non-negative integers
Xor(a, b) ==
    IF a = 0 THEN b
    ELSE IF b = 0 THEN a
    ELSE (((a % 2) + (b % 2)) % 2) + (2 * Xor(a \div 2, b \div 2))

\* x & 0xFF
LowByte(x) == x % 256

\* bytes([0] * n): nothing for n <= 0
Zeros(n) == [i \in 1..n |-> 0]

RECURSIVE ChecksumFrom(_, _, _)
\* the loop "for b in frame: checksum ^= b", from position i with accumulator acc
ChecksumFrom(frame, i, acc) ==
    IF i > Len(frame) THEN acc
    ELSE ChecksumFrom(frame, i + 1, Xor(acc, frame[i]))

\* a checksum that leaves the marker byte out
ChecksumSkipsMarker(frame) == ChecksumFrom(frame, 2, 0)

Checksum(frame) == ChecksumFrom(frame, 1, 0)

-----------------------------------------------------------------------------
(* The frame codec *)

Raise(err) == [ok |-> FALSE, err |-> err, frame |-> <<>>]
Return(frame) == [ok |-> TRUE, err |-> "", frame |-> frame]

\* the frame before the checksum: marker, code, payload, zero padding to 19
PacketBody(c, p) ==
    LET head == <<Marker, LowByte(c)>> \o p
    IN  head \o Zeros(FrameBody - Len(head))

\* a codec that cuts a long payload to the capacity instead of raising
PrepareTruncating(c, p) ==
    LET kept == IF Len(p) > MaxPayload THEN SubSeq(p, 1, MaxPayload) ELSE p
        body == PacketBody(c, kept)
    IN  Return(body \o <<LowByte(Checksum(body))>>)

\* _prepareSinglePacketData(cmd, payload) for an int cmd and a list of ints
\* (the isinstance checks of lines 200-204 pass for these); bytes(payload)
\* raises ValueError for an element outside range(256)
_prepareSinglePacketData(c, p) ==
    IF Len(p) > MaxPayload THEN Raise("ValueError: Payload too long")
    ELSE IF \E i \in 1..Len(p) : p[i] < 0 \/ p[i] > 255
         THEN Raise("ValueError: bytes must be in range(0, 256)")
    ELSE LET body == PacketBody(c, p)
         IN  Return(body \o <<LowByte(Checksum(body))>>)

-----------------------------------------------------------------------------
(* The effect catalog and the multi-frame splitter *)

\* base64.b64decode on a sequence of sextets (0..63; 64 stands for '='):
\* every group of four sextets yields three bytes, fewer for a padded group
B64Group(a, b, c, d) ==
    LET n == (a * 262144) + (b * 4096) + ((c % 64) * 64) + (d % 64)
        b1 == n \div 65536
        b2 == (n \div 256) % 256
        b3 == n % 256
    IN  IF c = 64 THEN <<b1>>
        ELSE IF d = 64 THEN <<b1, b2>>
        ELSE <<b1, b2, b3>>

RECURSIVE b64decode(_)
b64decode(s) ==
    IF Len(s) < 4 THEN <<>>
    ELSE B64Group(s[1], s[2], s[3], s[4]) \o b64decode(SubSeq(s, 5, Len(s)))

\* jsons/<model>.json, json_data['data']['categories']: categories of scenes
\* of lightEffects of specialEffect entries, each reduced to its scenceParam
\* (the base64 text, as sextets).  One category, one scene, one lightEffect,
\* two specialEffects: a parameter blob of 18 bytes and one of 2 bytes.
Catalog ==
    << << << << <<0, 16, 8, 3, 1, 0, 20, 6, 1, 32, 36, 10, 2, 48, 52, 14,
                  3, 49, 0, 18, 4, 17, 16, 22>>,
                <<63, 56, 4, 64>> >> >> >> >>

\* seq[i] of Python for i >= 0: found, or IndexError
InRange(seq, i) == i + 1 <= Len(seq)

\* a lookup that falls back to the first entry of every level
LookupFirst(path) == <<Catalog[1][1][1][1]>>

\* lines 168-171: the four subscripts; <<>> when one raises IndexError
Lookup(path) ==
    IF ~InRange(Catalog, path[1]) THEN <<>>
    ELSE LET category == Catalog[path[1] + 1]
         IN  IF ~InRange(category, path[2]) THEN <<>>
             ELSE LET scene == category[path[2] + 1]
                  IN  IF ~InRange(scene, path[3]) THEN <<>>
                      ELSE LET lightEffect == scene[path[3] + 1]
                           IN  IF ~InRange(lightEffect, path[4]) THEN <<>>
                               ELSE <<lightEffect[path[4] + 1]>>

RECURSIVE Chunks(_, _)
\* a byte stream cut into pieces of at most n bytes, in order
Chunks(stream, n) ==
    IF Len(stream) <= n THEN <<stream>>
    ELSE <<SubSeq(stream, 1, n)>> \o Chunks(SubSeq(stream, n + 1, Len(stream)), n)

\* one frame of the multi-frame sub-protocol: marker, sequence byte, chunk,
\* zero padding, XOR checksum
EffectFrame(marker, k, chunk) ==
    LET head == <<marker, LowByte(k)>> \o chunk
        body == head \o Zeros(FrameBody - Len(head))
    IN  body \o <<LowByte(Checksum(body))>>

\* govee_utils.prepareMultiplePacketsData(marker, header, data): the header
\* followed by the data, cut to the payload budget, one frame per piece
prepareMultiplePacketsData(marker, header, data) ==
    LET pieces == Chunks(header \o data, MaxPayload)
    IN  [k \in 1..Len(pieces) |-> EffectFrame(marker, k - 1, pieces[k])]

-----------------------------------------------------------------------------
(* Inputs *)

\* config_entry.data["model"]: segmented and percent, segmented only, neither
Models == {"H617A", "H6053", "H6001"}

\* kwargs[ATTR_BRIGHTNESS]: absent or a level
BrightnessArgs == {<<>>, <<128>>}

\* kwargs[ATTR_RGB_COLOR]: absent or a triple
ColorArgs == {<<>>, << <<10, 20, 30>> >>}

\* index paths: one that resolves in Catalog, and one out of range at each level
EffectPaths ==
    {<<0, 0, 0, 0>>,
     <<1, 0, 0, 0>>, <<0, 1, 0, 0>>, <<0, 0, 1, 0>>, <<0, 0, 0, 2>>}

\* an effect string as _load_effect_list builds them (lines 102-106): a text
\* and the four numbers "[a/b/c/d]" that EFFECT_PARSE finds in it
EffectStrings == {[label |-> "Sunrise", indexes |-> p] : p \in EffectPaths}

\* kwargs[ATTR_EFFECT]: absent or an effect string
EffectArgs == {<<>>} \cup {<<e>> : e \in EffectStrings}

Kwargs ==
    [brightness : BrightnessArgs, rgb_color : ColorArgs, effect : EffectArgs]

NoKwargs == [brightness |-> <<>>, rgb_color |-> <<>>, effect |-> <<>>]

\* the **kwargs of async_turn_off: none, or some the method never reads
OffKwargs ==
    {NoKwargs,
     [brightness |-> <<128>>, rgb_color |-> << <<10, 20, 30>> >>, effect |-> <<>>]}

\* codec harness inputs
CmdSamples == {0, 1, 4, 5, 261}
ByteSamples == {0, 1, 51, 255, 256}

-----------------------------------------------------------------------------
(* The command builder: async_turn_on up to its first await *)

\* "if effect:" on an effect string
Truthy(e) == e.label # "" \/ e.indexes # <<>>

\* EFFECT_PARSE.search(effect): the four indexes, or <<>> for no match
Search(e) == e.indexes

\* a scaling that rounds to the nearest percent
BrightnessPercentRounded(b) == ((b * 100) + 127) \div 255

\* int(brightness * 100 / 255)
BrightnessPercent(b) == (b * 100) \div 255

\* lines 137-144: the Brightness packet for a requested level
BrightnessPacket(b) ==
    IF use_percent
    THEN _prepareSinglePacketData(BRIGHTNESS, <<BrightnessPercent(b)>>)
    ELSE _prepareSinglePacketData(BRIGHTNESS, <<b>>)

\* a builder that knows the flat layout only
ColorPacketManual(c) ==
    _prepareSinglePacketData(COLOR, <<MANUAL, c[1], c[2], c[3]>>)

\* lines 146-155: the Color packet for a requested triple
ColorPacket(c) ==
    IF is_segmented
    THEN _prepareSinglePacketData(COLOR,
             <<SEGMENTS, 1, c[1], c[2], c[3], 0, 0, 0, 0, 0, 255, 127>>)
    ELSE _prepareSinglePacketData(COLOR, <<MANUAL, c[1], c[2], c[3]>>)

\* lines 134-163: the packets built and the attributes assigned before the
\* first await; err is the exception that ended the call there, "" for none
BuildTurnOn(kw) ==
    LET power == _prepareSinglePacketData(POWER, <<1>>)
        hasB == kw.brightness # <<>>
        bpkt == BrightnessPacket(kw.brightness[1])
        hasC == kw.rgb_color # <<>>
        cpkt == ColorPacket(kw.rgb_color[1])
        okB == power.ok /\ (hasB => bpkt.ok)
        okC == okB /\ (hasC => cpkt.ok)
    IN  [commands |-> (IF power.ok THEN <<power.frame>> ELSE <<>>)
                      \o (IF okB /\ hasB THEN <<bpkt.frame>> ELSE <<>>)
                      \o (IF okC /\ hasC THEN <<cpkt.frame>> ELSE <<>>),
         err |-> IF ~power.ok THEN power.err
                 ELSE IF ~okB THEN bpkt.err
                 ELSE IF ~okC THEN cpkt.err
                 ELSE "",
         setState |-> power.ok,
         setBrightness |-> okB /\ hasB,
         setColor |-> okC /\ hasC,
         load |-> okC /\ kw.effect # <<>> /\ Truthy(kw.effect[1])
                  /\ Search(kw.effect[1]) # <<>>]

-----------------------------------------------------------------------------
(* Intents *)

Intents == 1..MaxIntents

\* a call that has not been made
NoIntent ==
    [kind |-> "none", kwargs |-> NoKwargs, pc |-> "idle", commands |-> <<>>,
     sent |-> 0, attempts |-> <<>>, calls |-> 0, client |-> <<>>, error |-> "",
     handed |-> <<>>]

\* the link a successful establish_connection returns: a new client object,
\* named by the call and the _connectBluetooth call that made it
NewLink(k) == <<k, intents[k].calls>>

\* a loop that makes one attempt more
ExhaustedLate(attempts) == Len(attempts) >= ConnectAttempts + 1

\* "for _ in range(3)" has run out after this many failed attempts
Exhausted(attempts) == Len(attempts) >= ConnectAttempts

\* calls are numbered in the order they are made
CanCall(k) ==
    /\ intents[k].pc = "idle"
    /\ k > 1 => intents[k - 1].pc # "idle"

\* async_turn_on(**kw), from the call to its first await (lines 134-165/180)
TurnOn(k, kw) ==
    /\ CanCall(k)
    /\ LET b == BuildTurnOn(kw)
       IN  /\ state' = IF b.setState THEN <<TRUE>> ELSE state
           /\ brightness' = IF b.setBrightness THEN kw.brightness ELSE brightness
           /\ rgb_color' = IF b.setColor THEN kw.rgb_color ELSE rgb_color
           /\ intents' = [intents EXCEPT ![k] =
                  [NoIntent EXCEPT
                      !.kind = "on", !.kwargs = kw, !.commands = b.commands,
                      !.pc = IF b.err # "" THEN "failed"
                             ELSE IF b.load THEN "load" ELSE "connect",
                      !.calls = IF b.err = "" /\ ~b.load THEN 1 ELSE 0,
                      !.error = b.err]]
    /\ UNCHANGED <<model, is_segmented, use_percent, written, links, codecVars>>

\* lines 165-180: the catalog text has been read; the four subscripts, the
\* effect packets, and the first _connectBluetooth call of the loop
LoadEffect(k) ==
    /\ intents[k].pc = "load"
    /\ LET found == Lookup(Search(intents[k].kwargs.effect[1]))
       IN  intents' = [intents EXCEPT ![k] =
               IF found = <<>>
               THEN [@ EXCEPT !.pc = "failed", !.error = "IndexError"]
               ELSE [@ EXCEPT
                        !.commands = @ \o prepareMultiplePacketsData(
                            EffectMarker, <<EffectSubType>>, b64decode(found[1])),
                        !.pc = "connect", !.calls = 1]]
    /\ UNCHANGED <<model, is_segmented, use_percent, state, brightness,
                   rgb_color, written, links, codecVars>>

\* async_turn_off(**kw), from the call to its first await (line 184)
TurnOff(k, kw) ==
    /\ CanCall(k)
    /\ intents' = [intents EXCEPT ![k] =
           [NoIntent EXCEPT !.kind = "off", !.kwargs = kw, !.pc = "connect",
                            !.calls = 1]]
    /\ UNCHANGED <<model, is_segmented, use_percent, state, brightness,
                   rgb_color, written, links, codecVars>>

\* lines 192-195: establish_connection returned a client; _connectBluetooth
\* returns it and the caller starts write_gatt_char on it: handed lists, for
\* every write_gatt_char call made, the place of its command in the loop and
\* the client it was made on
ConnectSucceeds(k) ==
    /\ intents[k].pc = "connect"
    /\ intents' = [intents EXCEPT ![k] =
           [@ EXCEPT !.attempts = Append(@, TRUE), !.client = <<NewLink(k)>>,
                     !.handed = Append(@, [index |-> intents[k].sent + 1,
                                           link |-> NewLink(k)]),
                     !.pc = "write"]]
    /\ links' = links \cup {NewLink(k)}
    /\ UNCHANGED <<model, is_segmented, use_percent, state, brightness,
                   rgb_color, written, codecVars>>

\* lines 196-197: establish_connection raised; the exception is swallowed and
\* the loop goes on.  When range(3) has run out the function falls off its end
\* and returns None, and the caller's client.write_gatt_char raises
\* AttributeError
ConnectFails(k) ==
    /\ intents[k].pc = "connect"
    /\ LET tried == Append(intents[k].attempts, FALSE)
       IN  intents' = [intents EXCEPT ![k] =
               IF Exhausted(tried)
               THEN [@ EXCEPT !.attempts = tried, !.client = <<>>,
                              !.pc = "failed", !.error = "AttributeError"]
               ELSE [@ EXCEPT !.attempts = tried]]
    /\ UNCHANGED <<model, is_segmented, use_percent, state, brightness,
                   rgb_color, written, links, codecVars>>

\* a loop that ends after its first command
AfterWriteReturns(it) ==
    [it EXCEPT !.sent = @ + 1, !.pc = "done", !.attempts = <<>>]

\* a loop that connects once and writes every later command on that client
AfterWriteKeepsClient(it) ==
    IF it.sent + 1 < Len(it.commands)
    THEN [it EXCEPT !.sent = @ + 1, !.pc = "write",
                    !.handed = Append(@, [index |-> it.sent + 2,
                                          link |-> it.client[1]])]
    ELSE [it EXCEPT !.sent = @ + 1, !.pc = "done", !.attempts = <<>>]

\* what follows a completed write: the next command of the loop of line 179
\* (a new _connectBluetooth call), or the end of the call
AfterWrite(it) ==
    IF it.sent + 1 < Len(it.commands)
    THEN [it EXCEPT !.sent = @ + 1, !.pc = "connect", !.attempts = <<>>,
                    !.calls = @ + 1]
    ELSE [it EXCEPT !.sent = @ + 1, !.pc = "done", !.attempts = <<>>]

\* a turn-off that sends the Power packet of turn-on
OutgoingPowerOn(it) ==
    IF it.kind = "off"
    THEN _prepareSinglePacketData(POWER, <<1>>).frame
    ELSE it.commands[it.sent + 1]

\* the data argument of write_gatt_char: the loop's command in async_turn_on
\* (line 181), the Power packet built in place in async_turn_off (line 186)
Outgoing(it) ==
    IF it.kind = "off"
    THEN _prepareSinglePacketData(POWER, <<0>>).frame
    ELSE it.commands[it.sent + 1]

\* a turn-off that leaves self._state as it is
StateAfterWriteKept(it) == state

\* line 187: self._state = False once the write of async_turn_off completed
StateAfterWrite(it) == IF it.kind = "off" THEN <<FALSE>> ELSE state

\* lines 181 and 185-187: write_gatt_char completed
WriteSucceeds(k) ==
    /\ intents[k].pc = "write"
    /\ written' = Append(written,
           [intent |-> k, frame |-> Outgoing(intents[k]),
            link |-> intents[k].client[1]])
    /\ intents' = [intents EXCEPT ![k] = AfterWrite(@)]
    /\ state' = StateAfterWrite(intents[k])
    /\ UNCHANGED <<model, is_segmented, use_percent, brightness, rgb_color,
                   links, codecVars>>

\* a loop that swallows the exception of a write and goes on
AfterFailedWriteContinues(it) ==
    IF it.sent + 1 < Len(it.commands)
    THEN [it EXCEPT !.sent = @ + 1, !.pc = "connect", !.attempts = <<>>,
                    !.calls = @ + 1]
    ELSE [it EXCEPT !.sent = @ + 1, !.pc = "done", !.attempts = <<>>]

\* a loop that connects again and writes the same command once more
AfterFailedWriteRetries(it) ==
    [it EXCEPT !.pc = "connect", !.attempts = <<>>, !.calls = @ + 1]

\* the exception of write_gatt_char is not caught: it ends the call
AfterFailedWrite(it) ==
    [it EXCEPT !.pc = "failed", !.error = "BleakError", !.attempts = <<>>]

\* lines 181 and 185: write_gatt_char raised; the exception leaves the call
WriteFails(k) ==
    /\ intents[k].pc = "write"
    /\ intents' = [intents EXCEPT ![k] = AfterFailedWrite(@)]
    /\ UNCHANGED <<model, is_segmented, use_percent, state, brightness,
                   rgb_color, written, links, codecVars>>

\* GoveeBluetoothLight.__init__ (lines 78-87), no call made yet
Init ==
    /\ model \in Models
    /\ is_segmented = IsSegmented(model)
    /\ use_percent = UsesPercent(model)
    /\ state = <<>>
    /\ brightness = <<>>
    /\ rgb_color = <<>>
    /\ intents = [k \in Intents |-> NoIntent]
    /\ written = <<>>
    /\ links = {}
    /\ cmd = 0
    /\ payload = <<>>
    /\ result = Raise("")
    /\ request = <<>>
    /\ built = <<>>
    /\ earlier = <<>>

Next ==
    \E k \in Intents :
        \/ \E kw \in Kwargs : TurnOn(k, kw)
        \/ \E kw \in OffKwargs : TurnOff(k, kw)
        \/ LoadEffect(k)
        \/ ConnectSucceeds(k)
        \/ ConnectFails(k)
        \/ WriteSucceeds(k)
        \/ WriteFails(k)

Spec == Init /\ [][Next]_vars

-----------------------------------------------------------------------------
(* The codec harness: _prepareSinglePacketData applied to sampled arguments *)

\* a payload of n bytes that repeats the three bytes a, b, c
Pattern(n, a, b, c) ==
    [i \in 1..n |-> IF i % 3 = 1 THEN a ELSE IF i % 3 = 2 THEN b ELSE c]

CodecInit ==
    /\ model = "H6001"
    /\ is_segmented = IsSegmented(model)
    /\ use_percent = UsesPercent(model)
    /\ state = <<>>
    /\ brightness = <<>>
    /\ rgb_color = <<>>
    /\ intents = [k \in Intents |-> NoIntent]
    /\ written = <<>>
    /\ links = {}
    /\ cmd \in CmdSamples
    /\ \E n \in 0..MaxPayloadLen : \E a, b, c \in ByteSamples :
           payload = Pattern(n, a, b, c)
    /\ result = Raise("")
    /\ request = <<>>
    /\ built = <<>>
    /\ earlier = <<>>

\* one call of _prepareSinglePacketData(cmd, payload)
Prepare ==
    /\ result = Raise("")
    /\ result' = _prepareSinglePacketData(cmd, payload)
    /\ UNCHANGED <<cmd, payload, deviceVars, builderVars>>

\* the harness takes the next arguments
Forget ==
    /\ result # Raise("")
    /\ result' = Raise("")
    /\ \E c \in CmdSamples : cmd' = c
    /\ UNCHANGED <<payload, deviceVars, builderVars>>

CodecNext == Prepare \/ Forget

CodecSpec == CodecInit /\ [][CodecNext]_vars

-----------------------------------------------------------------------------
(* The builder harness: lines 134-163 of async_turn_on applied to kwargs that *)
(* range over every brightness level and over sampled colours               *)

\* the brightness levels of the light platform
Levels == 0..255

\* the values a colour channel is sampled at
ChannelSamples == {0, 10, 20, 30, 255}

\* kwargs with any level and no colour, or with a sampled colour
BuilderKwargs ==
    {[brightness |-> <<b>>, rgb_color |-> <<>>, effect |-> <<>>] : b \in Levels}
    \cup [brightness : BrightnessArgs,
          rgb_color : {<< <<r, g, b>> >> : r \in ChannelSamples,
                                          g \in ChannelSamples,
                                          b \in ChannelSamples},
          effect : {<<>>}]

\* kwargs that carry a brightness level and nothing else
LevelOnly(kw) == kw.brightness # <<>> /\ kw.rgb_color = <<>> /\ kw.effect = <<>>

BuilderInit ==
    /\ model \in Models
    /\ is_segmented = IsSegmented(model)
    /\ use_percent = UsesPercent(model)
    /\ state = <<>>
    /\ brightness = <<>>
    /\ rgb_color = <<>>
    /\ intents = [k \in Intents |-> NoIntent]
    /\ written = <<>>
    /\ links = {}
    /\ cmd = 0
    /\ payload = <<>>
    /\ result = Raise("")
    /\ request = <<>>
    /\ built = <<>>
    /\ earlier = <<>>

\* the builder is applied to the kwargs of a first call
Build(kw) ==
    /\ request = <<>>
    /\ request' = <<kw>>
    /\ built' = <<BuildTurnOn(kw)>>
    /\ UNCHANGED <<earlier, deviceVars, cmd, payload, result>>

\* the builder is applied to the kwargs of a second call, which asks for a
\* level not below that of the first; the first request and result are kept
BuildAgain(kw) ==
    /\ request # <<>>
    /\ earlier = <<>>
    /\ LevelOnly(request[1])
    /\ LevelOnly(kw)
    /\ kw.brightness[1] >= request[1].brightness[1]
    /\ earlier' = <<[request |-> request[1], built |-> built[1]]>>
    /\ request' = <<kw>>
    /\ built' = <<BuildTurnOn(kw)>>
    /\ UNCHANGED <<deviceVars, cmd, payload, result>>

BuilderNext == \E kw \in BuilderKwargs : Build(kw) \/ BuildAgain(kw)

BuilderSpec == BuilderInit /\ [][BuilderNext]_vars

-----------------------------------------------------------------------------
(* Properties of the frame codec (checked under CodecSpec) *)

\* _prepareSinglePacketData has been applied to cmd and payload
Called == result # Raise("")

\* every element of the payload is a byte value
BytePayload == \A i \in 1..Len(payload) : payload[i] \in 0..255

RECURSIVE XorOfFirst(_, _)
\* the XOR of the first n elements of a sequence
XorOfFirst(seq, n) == IF n = 0 THEN 0 ELSE Xor(seq[n], XorOfFirst(seq, n - 1))

\* C1: for every command code and every payload of 0..17 byte values the
\* codec returns exactly 20 bytes: 0x33, the code (its low 8 bits), the
\* payload, zeros up to byte 18, and as byte 19 the XOR of bytes 0..18.
C1_FrameLayout ==
    (Called /\ Len(payload) <= 17 /\ BytePayload) =>
        /\ result.ok
        /\ Len(result.frame) = 20
        /\ result.frame[1] = 51
        /\ result.frame[2] = cmd % 256
        /\ \A i \in 1..Len(payload) : result.frame[2 + i] = payload[i]
        /\ \A i \in (3 + Len(payload))..19 : result.frame[i] = 0
        /\ result.frame[20] = XorOfFirst(result.frame, 19)

\* a full payload, a code wider than a byte, and a frame was returned
C1_Witness ==
    /\ Called
    /\ result.ok
    /\ Len(payload) = 17
    /\ payload[1] = 255
    /\ payload[2] = 51
    /\ cmd = 261

\* C2: for every payload longer than 17 bytes the codec fails with the
\* payload error and returns no frame; the payload is never truncated.
C2_LongPayloadRejected ==
    (Called /\ Len(payload) > 17) =>
        /\ ~result.ok
        /\ result.err = "ValueError: Payload too long"
        /\ result.frame = <<>>

\* a payload of 18 byte values was handed to the codec
C2_Witness ==
    /\ Called
    /\ Len(payload) = 18
    /\ BytePayload
    /\ ~result.ok

-----------------------------------------------------------------------------
(* Properties of the intents (checked under Spec) *)

\* the frames the peripheral received from call k, in the order received
WrittenBy(k) ==
    LET mine == SelectSeq(written, LAMBDA e : e.intent = k)
    IN  [i \in 1..Len(mine) |-> mine[i].frame]

IsPrefix(s, t) == Len(s) <= Len(t) /\ \A i \in 1..Len(s) : s[i] = t[i]

\* the Power-on frame: 0x33, 0x01, 0x01, sixteen zeros, checksum 0x33
PowerOnFrame == <<51, 1, 1>> \o [i \in 1..16 |-> 0] \o <<51>>

\* what a frame is, by its marker and code bytes
KindOf(frame) ==
    IF frame[1] = 163 THEN "effect"
    ELSE IF frame[2] = 1 THEN "power"
    ELSE IF frame[2] = 4 THEN "brightness"
    ELSE IF frame[2] = 5 THEN "color"
    ELSE "other"

\* the index path of the kwargs, <<>> when they name none
PathOf(kw) == IF kw.effect = <<>> THEN <<>> ELSE kw.effect[1].indexes

\* a path that leaves the catalog at one of its four levels
OutOfRange(p) ==
    \/ p[1] >= Len(Catalog)
    \/ /\ p[1] < Len(Catalog)
       /\ \/ p[2] >= Len(Catalog[p[1] + 1])
          \/ /\ p[2] < Len(Catalog[p[1] + 1])
             /\ \/ p[3] >= Len(Catalog[p[1] + 1][p[2] + 1])
                \/ /\ p[3] < Len(Catalog[p[1] + 1][p[2] + 1])
                   /\ p[4] >= Len(Catalog[p[1] + 1][p[2] + 1][p[3] + 1])

\* the Effect frames of every index path: those of the catalog entry it names
EffectFramesAt ==
    [p \in EffectPaths |->
        IF OutOfRange(p) THEN <<>>
        ELSE prepareMultiplePacketsData(163, <<2>>,
                 b64decode(Catalog[p[1] + 1][p[2] + 1][p[3] + 1][p[4] + 1]))]

\* the Effect frames of the kwargs
EffectFramesOf(kw) ==
    IF PathOf(kw) = <<>> THEN <<>> ELSE EffectFramesAt[PathOf(kw)]

\* the kinds of the frames a turn-on intent is to write, in order
ExpectedKinds(kw) ==
    <<"power">>
    \o (IF kw.brightness # <<>> THEN <<"brightness">> ELSE <<>>)
    \o (IF kw.rgb_color # <<>> THEN <<"color">> ELSE <<>>)
    \o [i \in 1..Len(EffectFramesOf(kw)) |-> "effect"]

\* C3: the frames a turn-on intent writes are the Power-on frame, then the
\* Brightness frame if brightness is given, then the Color frame if a color
\* is given, then the Effect frames if an effect is given, in that order and
\* nothing else; the call returns normally only when all have been written.
C3_TurnOnFrameOrder ==
    \A k \in Intents :
        intents[k].kind = "on" =>
            LET w == WrittenBy(k)
                kinds == ExpectedKinds(intents[k].kwargs)
                effects == EffectFramesOf(intents[k].kwargs)
                lead == Len(kinds) - Len(effects)
            IN  /\ Len(w) <= Len(kinds)
                /\ \A i \in 1..Len(w) : KindOf(w[i]) = kinds[i]
                /\ Len(w) >= 1 => w[1] = PowerOnFrame
                /\ \A i \in 1..Len(w) : i > lead => w[i] = effects[i - lead]
                /\ intents[k].pc = "done" => Len(w) = Len(kinds)

\* a turn-on with brightness, color and effect returned: five frames written
C3_Witness ==
    \E k \in Intents :
        /\ intents[k].kind = "on"
        /\ intents[k].pc = "done"
        /\ intents[k].kwargs.brightness # <<>>
        /\ intents[k].kwargs.rgb_color # <<>>
        /\ PathOf(intents[k].kwargs) = <<0, 0, 0, 0>>
        /\ Len(WrittenBy(k)) = 5

\* every attempt of the _connectBluetooth call of k so far has failed
AllFailed(att) == \A i \in 1..Len(att) : att[i] = FALSE

\* C4: when all 3 attempts fail, the caller gets a connect failure, and the
\* delivery step does not go on to use the result as a link.
C4_ConnectFailureSurfaced ==
    \A k \in Intents :
        (Len(intents[k].attempts) = 3 /\ AllFailed(intents[k].attempts)) =>
            /\ intents[k].pc = "failed"
            /\ intents[k].error = "ConnectFailed"

\* C5: one _connectBluetooth call makes at most 3 attempts; a failed attempt
\* is followed by the next one; the first successful attempt k ends the call
\* with its link after exactly k attempts; there is no attempt after a
\* success or after the third failure.
C5_BoundedRetry ==
    \A k \in Intents :
        LET att == intents[k].attempts
        IN  /\ Len(att) <= 3
            /\ \A i \in 1..(Len(att) - 1) : att[i] = FALSE
            /\ intents[k].pc = "connect" => (AllFailed(att) /\ Len(att) < 3)
            /\ intents[k].pc = "write" =>
                   /\ Len(att) \in 1..3
                   /\ att[Len(att)] = TRUE
                   /\ intents[k].client = << <<k, intents[k].calls>> >>
                   /\ intents[k].client[1] \in links
            /\ (Len(att) >= 1 /\ AllFailed(att) /\ intents[k].pc # "connect") =>
                   (Len(att) = 3 /\ intents[k].client = <<>>)

\* two failures, then the third attempt gave the link
C5_Witness ==
    \E k \in Intents :
        /\ intents[k].pc = "write"
        /\ intents[k].attempts = <<FALSE, FALSE, TRUE>>

\* C6: the frames of two intents are never interleaved on the device.
C6_NoInterleaving ==
    \A i, j, l \in 1..Len(written) :
        (i < j /\ j < l /\ written[i].intent = written[l].intent) =>
            written[j].intent = written[i].intent

\* C7: all frames of one intent are written over the same link.
C7_SameLink ==
    \A i, j \in 1..Len(written) :
        written[i].intent = written[j].intent =>
            written[i].link = written[j].link

\* C8: when a write of a turn-on intent fails the call fails with that error,
\* it writes no later frame, and what it has written is a prefix of what it
\* built.
C8_WriteFailureStops ==
    [][\A k \in Intents :
          /\ (/\ intents[k].pc = "write"
              /\ intents'[k] # intents[k]
              /\ WrittenBy(k)' = WrittenBy(k)) =>
                 /\ intents'[k].pc = "failed"
                 /\ intents'[k].error = "BleakError"
          /\ intents[k].pc = "failed" =>
                 /\ intents'[k] = intents[k]
                 /\ WrittenBy(k)' = WrittenBy(k)
          /\ intents'[k].kind = "on" =>
                 IsPrefix(WrittenBy(k)', intents'[k].commands)]_vars

\* the write of the third of five frames failed
C8_Witness ==
    \E k \in Intents :
        /\ intents[k].kind = "on"
        /\ intents[k].pc = "failed"
        /\ intents[k].error = "BleakError"
        /\ Len(intents[k].commands) = 5
        /\ Len(WrittenBy(k)) = 2

\* C9: a turn-on whose index path does not resolve fails with an error,
\* writes no frame at all and makes no connection attempt.
C9_EffectNotFound ==
    \A k \in Intents :
        (/\ intents[k].kind = "on"
         /\ PathOf(intents[k].kwargs) # <<>>
         /\ OutOfRange(PathOf(intents[k].kwargs))) =>
            /\ intents[k].pc \in {"load", "failed"}
            /\ intents[k].pc = "failed" => intents[k].error = "IndexError"
            /\ WrittenBy(k) = <<>>
            /\ intents[k].calls = 0
            /\ intents[k].attempts = <<>>
            /\ \A l \in links : l[1] # k

\* a turn-on with brightness, color and an unknown effect has failed
C9_Witness ==
    \E k \in Intents :
        /\ intents[k].kind = "on"
        /\ intents[k].pc = "failed"
        /\ intents[k].error = "IndexError"
        /\ intents[k].kwargs.brightness # <<>>
        /\ intents[k].kwargs.rgb_color # <<>>
        /\ PathOf(intents[k].kwargs) = <<0, 0, 0, 2>>

\* C10: the session holds at most one active link at any moment.
C10_AtMostOneLink == Cardinality(links) <= 1

-----------------------------------------------------------------------------
(* Properties of turn-off and of the entity's attributes (checked under Spec) *)

\* the Power-off frame: 0x33, 0x01, 0x00, sixteen zeros, checksum 0x32
PowerOffFrame == <<51, 1, 0>> \o [i \in 1..16 |-> 0] \o <<50>>

\* C11: a turn-off that returns normally has written exactly one frame, the
\* Power-off frame, whatever its arguments and the entity's previous state;
\* a turn-off never writes anything else.
C11_TurnOffOneFrame ==
    \A k \in Intents :
        intents[k].kind = "off" =>
            /\ IsPrefix(WrittenBy(k), <<PowerOffFrame>>)
            /\ intents[k].pc = "done" => WrittenBy(k) = <<PowerOffFrame>>

\* a turn-off with arguments returned, after a turn-on with brightness did
C11_Witness ==
    \E k, j \in Intents :
        /\ intents[k].kind = "off"
        /\ intents[k].pc = "done"
        /\ intents[k].kwargs # NoKwargs
        /\ intents[j].kind = "on"
        /\ intents[j].pc = "done"
        /\ brightness = <<128>>
        /\ Len(WrittenBy(k)) = 1

\* C14: is_segmented is the membership of the model in the segmented models
\* and use_percent its membership in the percent models, both false for a
\* model in neither list; no step of a turn-on or turn-off changes them.
C14_CapabilitiesFixed ==
    [][/\ is_segmented =
              (model \in {"H6053", "H6072", "H6102", "H6199", "H617A", "H617C"})
       /\ use_percent = (model \in {"H617A"})
       /\ model = "H6001" => (~is_segmented /\ ~use_percent)
       /\ model' = model
       /\ is_segmented' = is_segmented
       /\ use_percent' = use_percent]_vars

\* a segmented model without percent brightness, after a call that returned
\* and one that failed
C14_Witness ==
    /\ model = "H6053"
    /\ is_segmented
    /\ ~use_percent
    /\ \E k, j \in Intents :
           intents[k].pc = "done" /\ intents[j].pc = "failed"

\* C15: within one intent every built frame is handed to write_gatt_char at
\* most once, in the order built; after a failed write the intent hands over
\* nothing more, the failed frame included.
C15_NoWriteRetry ==
    \A k \in Intents :
        LET h == intents[k].handed
        IN  /\ \A i \in 1..Len(h) : h[i].index = i
            /\ \A i, j \in 1..Len(h) : h[i].index = h[j].index => i = j
            /\ Len(WrittenBy(k)) <= Len(h)
            /\ Len(h) <= Len(WrittenBy(k)) + 1
            /\ intents[k].error = "BleakError" =>
                   (intents[k].pc = "failed" /\ Len(h) = Len(WrittenBy(k)) + 1)

\* the second write of a turn-on failed, after a link that took two attempts
C15_Witness ==
    \E k \in Intents :
        /\ intents[k].kind = "on"
        /\ intents[k].error = "BleakError"
        /\ Len(intents[k].handed) = 2
        /\ Len(intents[k].commands) >= 3

\* the links the frames of call k were written on, in the order received
LinksBy(k) ==
    LET mine == SelectSeq(written, LAMBDA e : e.intent = k)
    IN  [i \in 1..Len(mine) |-> mine[i].link]

\* C16: every write is made on the link of a _connectBluetooth call of its
\* own, made by the same intent right before it; no write uses a link of
\* another intent; the _connectBluetooth calls of an intent are as many as
\* the frames it has tried to write.
C16_ConnectPerFrame ==
    \A k \in Intents :
        LET it == intents[k]
            h == it.handed
        IN  /\ \A i \in 1..Len(h) : h[i].link = <<k, i>>
            /\ \A i \in 1..Len(LinksBy(k)) : LinksBy(k)[i] = h[i].link
            /\ it.calls = Len(h)
                   + (IF it.pc = "connect" THEN 1 ELSE 0)
                   + (IF it.error = "AttributeError" THEN 1 ELSE 0)

\* a turn-on returned after three frames and three _connectBluetooth calls
C16_Witness ==
    \E k \in Intents :
        /\ intents[k].kind = "on"
        /\ intents[k].pc = "done"
        /\ intents[k].calls = 3
        /\ Len(LinksBy(k)) = 3

\* no call is running
Quiescent == \A k \in Intents : intents[k].pc \in {"idle", "done", "failed"}

\* C17: once the calls made have ended, is_on is True only if a Power-on
\* frame was written after the last Power-off frame written; a turn-on that
\* wrote no frame (here the only call made) left is_on, brightness and
\* rgb_color as they were.
C17_IsOnReflectsDevice ==
    Quiescent =>
        /\ state = <<TRUE>> =>
               \E i \in 1..Len(written) :
                   /\ written[i].frame = PowerOnFrame
                   /\ \A j \in (i + 1)..Len(written) :
                          written[j].frame # PowerOffFrame
        /\ (/\ intents[1].kind = "on"
            /\ WrittenBy(1) = <<>>
            /\ \A k \in Intents : k > 1 => intents[k].pc = "idle") =>
               (state = <<>> /\ brightness = <<>> /\ rgb_color = <<>>)

\* C18: a step of a turn-off sets is_on to False exactly when it is the step
\* in which its Power-off write completed; every other step of a turn-off,
\* a failed link establishment or a failed write included, leaves is_on as
\* it is, and no step of a turn-off changes brightness or rgb_color.
C18_TurnOffStateAfterWrite ==
    [][\A k \in Intents :
          (intents'[k].kind = "off" /\ intents'[k] # intents[k]) =>
              /\ brightness' = brightness
              /\ rgb_color' = rgb_color
              /\ IF Len(WrittenBy(k)') > Len(WrittenBy(k))
                 THEN state' = <<FALSE>>
                 ELSE state' = state]_vars

\* the write of a turn-off failed while the entity was on with a brightness
C18_Witness ==
    \E k \in Intents :
        /\ intents[k].kind = "off"
        /\ intents[k].pc = "failed"
        /\ intents[k].error = "BleakError"
        /\ state = <<TRUE>>
        /\ brightness = <<128>>

-----------------------------------------------------------------------------
(* Properties of the command builder (checked under BuilderSpec) *)

\* the frames of a command list that are Color frames (0x33, 0x05)
ColorFrames(cmds) == SelectSeq(cmds, LAMBDA f : f[1] = 51 /\ f[2] = 5)

\* the level byte of the Brightness frame of a built command list
LevelByte(b) == b.commands[2][3]

\* C12: for every requested brightness b in 0..255 the Brightness frame
\* (code 0x04) carries the single payload byte b on a non-percent model and
\* floor(b*100/255) on a percent model; on a percent model the byte is in
\* 0..100, 0 for b = 0, 100 for b = 255, and not smaller for a larger b.
C12_BrightnessByte ==
    (request # <<>> /\ request[1].brightness # <<>>) =>
        LET b == request[1].brightness[1]
            f == built[1].commands[2]
        IN  /\ built[1].err = ""
            /\ Len(f) = 20
            /\ f[1] = 51
            /\ f[2] = 4
            /\ f[3] = IF model = "H617A" THEN (b * 100) \div 255 ELSE b
            /\ \A i \in 4..19 : f[i] = 0
            /\ f[20] = XorOfFirst(f, 19)
            /\ model = "H617A" =>
                   /\ f[3] \in 0..100
                   /\ b = 0 => f[3] = 0
                   /\ b = 255 => f[3] = 100
            /\ (earlier # <<>>
                /\ earlier[1].request.brightness[1] <= b) =>
                   LevelByte(earlier[1].built) <= f[3]

\* the percent model was asked for 254 and then for 255: 99, then 100
C12_Witness ==
    /\ model = "H617A"
    /\ earlier # <<>>
    /\ earlier[1].request.brightness = <<254>>
    /\ LevelByte(earlier[1].built) = 99
    /\ request[1].brightness = <<255>>
    /\ LevelByte(built[1]) = 100

\* the bytes 0..18 of a frame with the given leading bytes
Padded(lead) == lead \o [i \in 1..(19 - Len(lead)) |-> 0]

\* C13: for every RGB triple the Color frame (code 0x05) has the payload
\* [0x15, 0x01, r, g, b, 0, 0, 0, 0, 0, 0xFF, 0x7F] on a segmented model and
\* [0x02, r, g, b] on any other, zero-padded and checksummed; the builder
\* makes exactly one Color frame for kwargs with a colour and none without.
C13_ColorFrame ==
    request # <<>> =>
        LET colors == ColorFrames(built[1].commands)
        IN  IF request[1].rgb_color = <<>> THEN colors = <<>>
            ELSE LET c == request[1].rgb_color[1]
                     f == colors[1]
                     body == IF model \in {"H6053", "H6072", "H6102", "H6199",
                                           "H617A", "H617C"}
                             THEN Padded(<<51, 5, 21, 1, c[1], c[2], c[3],
                                           0, 0, 0, 0, 0, 255, 127>>)
                             ELSE Padded(<<51, 5, 2, c[1], c[2], c[3]>>)
                 IN  /\ built[1].err = ""
                     /\ Len(colors) = 1
                     /\ Len(f) = 20
                     /\ SubSeq(f, 1, 19) = body
                     /\ f[20] = XorOfFirst(body, 19)

\* a segmented model was asked for brightness and the colour (10, 20, 30)
C13_Witness ==
    /\ model = "H6053"
    /\ request # <<>>
    /\ request[1].rgb_color = << <<10, 20, 30>> >>
    /\ request[1].brightness # <<>>
    /\ Len(built[1].commands) = 3
    /\ built[1].commands[3][3] = 21

=============================================================================
